---- MODULE Spec2Model ----
(***************************************************************************)
(* VisqolManager (visqol-rs/src/visqol_manager.rs): construction, run and  *)
(* compute_results, one action per stage of a call.  The collaborators of  *)
(* the manager (load_as_mono, globally_align, calculate_similarity, the    *)
(* patch creators and quality mappers) live in other files; they are       *)
(* modelled at their interface.                                            *)
(***************************************************************************)
EXTENDS Integers, Sequences, FiniteSets, TLC

VARIABLES
    self,          \* the VisqolManager built by new (or the panic that ended new)
    variant,       \* argument of new
    window_size,   \* argument of new
    pc,            \* position inside the current call
    entry,         \* entry point of the current call: "run" / "compute_results"
    ref_path,      \* run's ref_signal_path
    deg_path,      \* run's deg_signal_path
    ref_signal,    \* the reference signal of the current call
    deg_signal,    \* the degraded signal of the current call (caller's / loaded)
    aligned,       \* `deg_signal` rebound at line 80: the aligner's output
    lag,           \* second component of the aligner's output
    scored,        \* the arguments calculate_similarity was invoked with
    trace,         \* collaborator invocations of the current call, in order
    result,        \* value returned by the current call
    calls,         \* number of calls started on this manager
    failedBefore   \* some earlier call on this manager returned Err

vars == <<self, variant, window_size, pc, entry, ref_path, deg_path, ref_signal,
          deg_signal, aligned, lag, scored, trace, result, calls, failedBefore>>

----------------------------------------------------------------------------
(* Bounds *)

MaxCalls == 2
MaxLen == 3
MaxDelay == 1
MaxWindow == 1

Abs(x) == IF x < 0 THEN -x ELSE x

----------------------------------------------------------------------------
(* AudioSignal: sample_rate in Hz, len = number of samples (in blocks of   *)
(* 16000), delay = position of the content inside the signal, content =    *)
(* what the samples hold.                                                  *)

SampleRates == {8000, 16000}
Lens == {n * 16000 : n \in 1..MaxLen}
Contents == {"speech", "noise", "silent"}

AudioSignal ==
    [sample_rate : SampleRates, len : Lens, delay : 0..MaxDelay, content : Contents]

NoSignal == [sample_rate |-> 0, len |-> 0, delay |-> 0, content |-> "none"]

\* duration = len / sample_rate, in milliseconds (exact for the lengths above)
get_duration(s) == (s.len * 1000) \div s.sample_rate

\* constants::DURATION_MISMATCH_TOLERANCE (1.0 second), in milliseconds
DURATION_MISMATCH_TOLERANCE == 1000

----------------------------------------------------------------------------
(* Files.  A path is identified with what the file system holds there.     *)

Paths ==
    {[exists |-> TRUE, audio |-> s] : s \in AudioSignal}
        \cup {[exists |-> FALSE, audio |-> NoSignal]}

NoPath == [exists |-> FALSE, audio |-> [NoSignal EXCEPT !.content = "unset"]]

\* audio_utils::load_as_mono
load_as_mono(path) ==
    IF path.exists
    THEN [kind |-> "Ok", signal |-> path.audio]
    ELSE [kind |-> "Err", error |-> "LoadError", path |-> path]

----------------------------------------------------------------------------
(* Variant and the model file of the Fullband variant *)

ModelPaths == {"model.txt", "missing.txt"}
LoadableModels == {"model.txt"}

Variants ==
    {[kind |-> "Wideband", use_unscaled_mos_mapping |-> b, model_path |-> ""] :
        b \in BOOLEAN}
    \cup {[kind |-> "Fullband", use_unscaled_mos_mapping |-> FALSE, model_path |-> p] :
        p \in ModelPaths}

WindowSizes == 0..MaxWindow

\* VadPatchCreator::new / ImagePatchCreator::new
VadPatchCreator(patch_size) == [kind |-> "VadPatchCreator", patch_size |-> patch_size]
ImagePatchCreator(patch_size) == [kind |-> "ImagePatchCreator", patch_size |-> patch_size]

\* SpeechSimilarityToQualityMapper::new(scale_to_max_mos)
SpeechSimilarityToQualityMapper(scale) ==
    [kind |-> "SpeechSimilarityToQualityMapper", scale_to_max_mos |-> scale,
     model |-> ""]

\* SvrSimilarityToQualityMapper::new(model_path): returns the mapper itself (no
\* Result), so a model that cannot be loaded ends construction with a panic.
SvrSimilarityToQualityMapper(model_path) ==
    IF model_path \in LoadableModels
    THEN [kind |-> "SvrSimilarityToQualityMapper", scale_to_max_mos |-> FALSE,
          model |-> model_path]
    ELSE [kind |-> "Panic", scale_to_max_mos |-> FALSE, model |-> model_path]

\* ComparisonPatchesSelector::new(NeurogramSimiliarityIndexMeasure::default())
ComparisonPatchesSelector(measure) ==
    [kind |-> "ComparisonPatchesSelector", measure |-> measure]

NoPart == [kind |-> "none"]

----------------------------------------------------------------------------
(* Collaborators of compute_results *)

\* alignment::globally_align: None when there is no usable correlation peak
\* (a silent signal); otherwise a new degraded signal shifted onto the
\* reference, and the lag that was applied.  The reference is left as it is.
globally_align(reference, degraded) ==
    IF reference.content = "silent" \/ degraded.content = "silent"
    THEN [kind |-> "None", signal |-> NoSignal, lag |-> 0]
    ELSE [kind |-> "Some",
          signal |-> [degraded EXCEPT !.delay = reference.delay],
          lag |-> degraded.delay - reference.delay]

\* The arguments of one calculate_similarity invocation.
ScoreArgs(reference, degraded, patch_creator, patch_selector, mapper, search_window) ==
    [reference |-> reference, degraded |-> degraded, patch_creator |-> patch_creator,
     patch_selector |-> patch_selector, sim_to_quality_mapper |-> mapper,
     search_window |-> search_window]

NoArgs == [reference |-> NoSignal, degraded |-> NoSignal, patch_creator |-> NoPart,
           patch_selector |-> NoPart, sim_to_quality_mapper |-> NoPart,
           search_window |-> 0]

\* The lag is not among the arguments of calculate_similarity, so the
\* SimilarityResult it builds has none to carry.
NoLag == [present |-> FALSE, value |-> 0]

\* visqol::calculate_similarity: a deterministic function of its arguments
\* (moslqo and the per-patch similarities are identified with `of`); the
\* Voice-Activity patch creator finds no patch in a reference without speech.
calculate_similarity(reference, degraded, creator, selector, mapper, window) ==
    IF creator.kind = "VadPatchCreator" /\ reference.content # "speech"
    THEN [kind |-> "Err", error |-> "EmptyPatchSet"]
    ELSE [kind |-> "Ok",
          value |-> [of |-> ScoreArgs(reference, degraded, creator, selector,
                                      mapper, window),
                     alignment_lag |-> NoLag]]

NoResult == [kind |-> "none"]

----------------------------------------------------------------------------
(* VisqolManager *)

\* new with the two patch-size constants exchanged
new_swapped_sizes(v, w) ==
    LET patch_creator ==
            IF v.kind = "Wideband"
            THEN VadPatchCreator("PATCH_SIZE_SPEECH")
            ELSE ImagePatchCreator("PATCH_SIZE_AUDIO")
        sim_to_quality_mapper ==
            IF v.kind = "Wideband"
            THEN SpeechSimilarityToQualityMapper(~v.use_unscaled_mos_mapping)
            ELSE SvrSimilarityToQualityMapper(v.model_path)
        patch_selector == ComparisonPatchesSelector("NeurogramSimiliarityIndexMeasure")
    IN  IF sim_to_quality_mapper.kind = "Panic"
        THEN [kind |-> "Panic", search_window |-> 0, patch_creator |-> NoPart,
              patch_selector |-> NoPart, sim_to_quality_mapper |-> NoPart]
        ELSE [kind |-> "Manager", search_window |-> w,
              patch_creator |-> patch_creator, patch_selector |-> patch_selector,
              sim_to_quality_mapper |-> sim_to_quality_mapper]

\* new passing the flag to the Speech mapper without the negation
new_flag_not_negated(v, w) ==
    LET patch_creator ==
            IF v.kind = "Wideband"
            THEN VadPatchCreator("PATCH_SIZE_AUDIO")
            ELSE ImagePatchCreator("PATCH_SIZE_SPEECH")
        sim_to_quality_mapper ==
            IF v.kind = "Wideband"
            THEN SpeechSimilarityToQualityMapper(v.use_unscaled_mos_mapping)
            ELSE SvrSimilarityToQualityMapper(v.model_path)
        patch_selector == ComparisonPatchesSelector("NeurogramSimiliarityIndexMeasure")
    IN  IF sim_to_quality_mapper.kind = "Panic"
        THEN [kind |-> "Panic", search_window |-> 0, patch_creator |-> NoPart,
              patch_selector |-> NoPart, sim_to_quality_mapper |-> NoPart]
        ELSE [kind |-> "Manager", search_window |-> w,
              patch_creator |-> patch_creator, patch_selector |-> patch_selector,
              sim_to_quality_mapper |-> sim_to_quality_mapper]

\* VisqolManager::new, visqol_manager.rs:32-59
new(v, w) ==
    LET patch_creator ==
            IF v.kind = "Wideband"
            THEN VadPatchCreator("PATCH_SIZE_AUDIO")
            ELSE ImagePatchCreator("PATCH_SIZE_SPEECH")
        sim_to_quality_mapper ==
            IF v.kind = "Wideband"
            THEN SpeechSimilarityToQualityMapper(~v.use_unscaled_mos_mapping)
            ELSE SvrSimilarityToQualityMapper(v.model_path)
        patch_selector == ComparisonPatchesSelector("NeurogramSimiliarityIndexMeasure")
    IN  IF sim_to_quality_mapper.kind = "Panic"
        THEN [kind |-> "Panic", search_window |-> 0, patch_creator |-> NoPart,
              patch_selector |-> NoPart, sim_to_quality_mapper |-> NoPart]
        ELSE [kind |-> "Manager", search_window |-> w,
              patch_creator |-> patch_creator, patch_selector |-> patch_selector,
              sim_to_quality_mapper |-> sim_to_quality_mapper]

\* validate_input_audio without the sample-rate comparison
validate_input_audio_no_rate_check(reference, degraded) ==
    [kind |-> "Ok", error |-> "", reference |-> 0, degraded |-> 0,
     warned |-> Abs(get_duration(reference) - get_duration(degraded))
                    > DURATION_MISMATCH_TOLERANCE]

\* validate_input_audio treating a duration mismatch as an error
validate_input_audio_duration_fatal(reference, degraded) ==
    IF reference.sample_rate # degraded.sample_rate
    THEN [kind |-> "Err", error |-> "DifferentSampleRates",
          reference |-> reference.sample_rate, degraded |-> degraded.sample_rate,
          warned |-> FALSE]
    ELSE IF Abs(get_duration(reference) - get_duration(degraded))
                > DURATION_MISMATCH_TOLERANCE
    THEN [kind |-> "Err", error |-> "DurationMismatch", reference |-> 0,
          degraded |-> 0, warned |-> TRUE]
    ELSE [kind |-> "Ok", error |-> "", reference |-> 0, degraded |-> 0,
          warned |-> FALSE]

\* VisqolManager::validate_input_audio, visqol_manager.rs:94-111
validate_input_audio(reference, degraded) ==
    IF reference.sample_rate # degraded.sample_rate
    THEN [kind |-> "Err", error |-> "DifferentSampleRates",
          reference |-> reference.sample_rate, degraded |-> degraded.sample_rate,
          warned |-> FALSE]
    ELSE [kind |-> "Ok", error |-> "", reference |-> 0, degraded |-> 0,
          warned |-> Abs(get_duration(reference) - get_duration(degraded))
                        > DURATION_MISMATCH_TOLERANCE]

\* The error value validate_input_audio hands to `?`
ValidationError(v) ==
    [kind |-> "Err", error |-> v.error, reference |-> v.reference,
     degraded |-> v.degraded]

Init ==
    /\ variant \in Variants
    /\ window_size \in WindowSizes
    /\ self = new(variant, window_size)
    /\ pc = "idle"
    /\ entry = "none"
    /\ ref_path = NoPath
    /\ deg_path = NoPath
    /\ ref_signal = NoSignal
    /\ deg_signal = NoSignal
    /\ aligned = NoSignal
    /\ lag = 0
    /\ scored = NoArgs
    /\ trace = <<>>
    /\ result = NoResult
    /\ calls = 0
    /\ failedBefore = FALSE

\* A call can start on a constructed manager that is not inside a call.
CanCall ==
    /\ self.kind = "Manager"
    /\ pc = "idle"
    /\ calls < MaxCalls

StartCall ==
    /\ calls' = calls + 1
    /\ UNCHANGED <<aligned, lag, scored, trace, result, failedBefore>>

\* run(ref_signal_path, deg_signal_path) is called, visqol_manager.rs:62
Run ==
    /\ CanCall
    /\ StartCall
    /\ entry' = "run"
    /\ \E rp \in Paths, dp \in Paths :
          /\ ref_path' = rp
          /\ deg_path' = dp
    /\ ref_signal' = NoSignal
    /\ deg_signal' = NoSignal
    /\ pc' = "load_ref"
    /\ UNCHANGED <<self, variant, window_size>>

\* LoadRef without the `?`: a reference that fails to load is skipped
LoadRefNoReturn ==
    /\ pc = "load_ref"
    /\ LET r == load_as_mono(ref_path)
       IN  /\ trace' = Append(trace, "load_ref")
           /\ ref_signal' = IF r.kind = "Ok" THEN r.signal ELSE ref_signal
           /\ pc' = "load_deg"
           /\ UNCHANGED result
    /\ UNCHANGED <<self, variant, window_size, entry, ref_path, deg_path, deg_signal,
                   aligned, lag, scored, calls, failedBefore>>

\* visqol_manager.rs:67  let mut ref_signal = load_as_mono(ref_signal_path)?;
LoadRef ==
    /\ pc = "load_ref"
    /\ LET r == load_as_mono(ref_path)
       IN  /\ trace' = Append(trace, "load_ref")
           /\ IF r.kind = "Ok"
              THEN /\ ref_signal' = r.signal
                   /\ pc' = "load_deg"
                   /\ UNCHANGED result
              ELSE /\ result' = r
                   /\ pc' = "done"
                   /\ UNCHANGED ref_signal
    /\ UNCHANGED <<self, variant, window_size, entry, ref_path, deg_path, deg_signal,
                   aligned, lag, scored, calls, failedBefore>>

\* visqol_manager.rs:68  let mut deg_signal = load_as_mono(deg_signal_path)?;
LoadDeg ==
    /\ pc = "load_deg"
    /\ LET r == load_as_mono(deg_path)
       IN  /\ trace' = Append(trace, "load_deg")
           /\ IF r.kind = "Ok"
              THEN /\ deg_signal' = r.signal
                   /\ pc' = "validate"
                   /\ UNCHANGED result
              ELSE /\ result' = r
                   /\ pc' = "done"
                   /\ UNCHANGED deg_signal
    /\ UNCHANGED <<self, variant, window_size, entry, ref_path, deg_path, ref_signal,
                   aligned, lag, scored, calls, failedBefore>>

\* visqol_manager.rs:70-72  validate_input_audio(..)?; then compute_results
Validate ==
    /\ pc = "validate"
    /\ LET v == validate_input_audio(ref_signal, deg_signal)
       IN  /\ trace' = trace \o <<"validate">> \o (IF v.warned THEN <<"warn">> ELSE <<>>)
           /\ IF v.kind = "Ok"
              THEN /\ pc' = "align"
                   /\ UNCHANGED result
              ELSE /\ result' = ValidationError(v)
                   /\ pc' = "done"
    /\ UNCHANGED <<self, variant, window_size, entry, ref_path, deg_path, ref_signal,
                   deg_signal, aligned, lag, scored, calls, failedBefore>>

\* compute_results(ref_signal, deg_signal) is called by the user,
\* visqol_manager.rs:75
ComputeResults ==
    /\ CanCall
    /\ StartCall
    /\ entry' = "compute_results"
    /\ ref_path' = NoPath
    /\ deg_path' = NoPath
    /\ \E rs \in AudioSignal, ds \in AudioSignal :
          /\ ref_signal' = rs
          /\ deg_signal' = ds
    /\ pc' = "align"
    /\ UNCHANGED <<self, variant, window_size>>

\* Align falling back to the unaligned degraded signal when the aligner
\* returns None
AlignFallback ==
    /\ pc = "align"
    /\ LET a == globally_align(ref_signal, deg_signal)
       IN  /\ trace' = Append(trace, "globally_align")
           /\ lag' = a.lag
           /\ aligned' = IF a.kind = "Some" THEN a.signal ELSE deg_signal
           /\ pc' = "score"
           /\ UNCHANGED result
    /\ UNCHANGED <<self, variant, window_size, entry, ref_path, deg_path, ref_signal,
                   deg_signal, scored, calls, failedBefore>>

\* visqol_manager.rs:80-81
\*   let (mut deg_signal, _) = globally_align(ref_signal, deg_signal)
\*       .ok_or(VisqolError::FailedToAlignSignals)?;
Align ==
    /\ pc = "align"
    /\ LET a == globally_align(ref_signal, deg_signal)
       IN  /\ trace' = Append(trace, "globally_align")
           /\ lag' = a.lag
           /\ IF a.kind = "Some"
              THEN /\ aligned' = a.signal
                   /\ pc' = "score"
                   /\ UNCHANGED result
              ELSE /\ result' = [kind |-> "Err", error |-> "FailedToAlignSignals"]
                   /\ pc' = "done"
                   /\ UNCHANGED aligned
    /\ UNCHANGED <<self, variant, window_size, entry, ref_path, deg_path, ref_signal,
                   deg_signal, scored, calls, failedBefore>>

\* Score handing the caller's degraded signal to calculate_similarity
ScoreUnaligned ==
    /\ pc = "score"
    /\ trace' = Append(trace, "calculate_similarity")
    /\ scored' = ScoreArgs(ref_signal, deg_signal, self.patch_creator,
                           self.patch_selector, self.sim_to_quality_mapper,
                           self.search_window)
    /\ result' = calculate_similarity(ref_signal, deg_signal, self.patch_creator,
                                      self.patch_selector, self.sim_to_quality_mapper,
                                      self.search_window)
    /\ pc' = "done"
    /\ UNCHANGED <<self, variant, window_size, entry, ref_path, deg_path, ref_signal,
                   deg_signal, aligned, lag, calls, failedBefore>>

\* Score using up the search window: the manager is left with a window of 0
ScoreResetsWindow ==
    /\ pc = "score"
    /\ trace' = Append(trace, "calculate_similarity")
    /\ scored' = ScoreArgs(ref_signal, aligned, self.patch_creator,
                           self.patch_selector, self.sim_to_quality_mapper,
                           self.search_window)
    /\ result' = calculate_similarity(ref_signal, aligned, self.patch_creator,
                                      self.patch_selector, self.sim_to_quality_mapper,
                                      self.search_window)
    /\ self' = [self EXCEPT !.search_window = 0]
    /\ pc' = "done"
    /\ UNCHANGED <<variant, window_size, entry, ref_path, deg_path, ref_signal,
                   deg_signal, aligned, lag, calls, failedBefore>>

\* visqol_manager.rs:83-90  calculate_similarity(ref_signal, &mut deg_signal,
\*   patch_creator, patch_selector, sim_to_quality_mapper, search_window)
Score ==
    /\ pc = "score"
    /\ trace' = Append(trace, "calculate_similarity")
    /\ scored' = ScoreArgs(ref_signal, aligned, self.patch_creator,
                           self.patch_selector, self.sim_to_quality_mapper,
                           self.search_window)
    /\ result' = calculate_similarity(ref_signal, aligned, self.patch_creator,
                                      self.patch_selector, self.sim_to_quality_mapper,
                                      self.search_window)
    /\ pc' = "done"
    /\ UNCHANGED <<self, variant, window_size, entry, ref_path, deg_path, ref_signal,
                   deg_signal, aligned, lag, calls, failedBefore>>

\* The call returns `result` to the caller; its locals are dropped.
Return ==
    /\ pc = "done"
    /\ pc' = "idle"
    /\ failedBefore' = (failedBefore \/ result.kind = "Err")
    /\ entry' = "none"
    /\ ref_path' = NoPath
    /\ deg_path' = NoPath
    /\ ref_signal' = NoSignal
    /\ deg_signal' = NoSignal
    /\ aligned' = NoSignal
    /\ lag' = 0
    /\ scored' = NoArgs
    /\ trace' = <<>>
    /\ result' = NoResult
    /\ UNCHANGED <<self, variant, window_size, calls>>

Next ==
    \/ Run
    \/ LoadRef
    \/ LoadDeg
    \/ Validate
    \/ ComputeResults
    \/ Align
    \/ Score
    \/ Return

Spec == Init /\ [][Next]_vars

----------------------------------------------------------------------------
(* Vocabulary of the properties *)

Has(e) == \E i \in DOMAIN trace : trace[i] = e
Count(e) == Cardinality({i \in DOMAIN trace : trace[i] = e})

\* the collaborator invocations of the current call, without the log lines
Stages == SelectSeq(trace, LAMBDA e : e # "warn")

RunStages ==
    <<"load_ref", "load_deg", "validate", "globally_align", "calculate_similarity">>

IsPrefix(s, u) == Len(s) <= Len(u) /\ \A i \in 1..Len(s) : s[i] = u[i]

BothLoad == ref_path.exists /\ deg_path.exists

AlignmentFailed == [kind |-> "Err", error |-> "FailedToAlignSignals"]

\* What compute_results(r, d) returns on manager m
ComputeOutcome(r, d, m) ==
    LET a == globally_align(r, d)
    IN  IF a.kind = "None"
        THEN AlignmentFailed
        ELSE calculate_similarity(r, a.signal, m.patch_creator, m.patch_selector,
                                  m.sim_to_quality_mapper, m.search_window)

\* What run(rp, dp) returns on manager m
RunOutcome(rp, dp, m) ==
    IF ~rp.exists THEN [kind |-> "Err", error |-> "LoadError", path |-> rp]
    ELSE IF ~dp.exists THEN [kind |-> "Err", error |-> "LoadError", path |-> dp]
    ELSE IF rp.audio.sample_rate # dp.audio.sample_rate
    THEN [kind |-> "Err", error |-> "DifferentSampleRates",
          reference |-> rp.audio.sample_rate, degraded |-> dp.audio.sample_rate]
    ELSE ComputeOutcome(rp.audio, dp.audio, m)

----------------------------------------------------------------------------
(* C1: a run whose two files load with different sample rates returns      *)
(* DifferentSampleRates carrying the reference and the degraded rate, and  *)
(* neither globally_align nor calculate_similarity is invoked in it.       *)
C1_RateMismatchFailsBeforeAlignment ==
    (entry = "run" /\ BothLoad
        /\ ref_path.audio.sample_rate # deg_path.audio.sample_rate)
    => /\ ~Has("globally_align")
       /\ ~Has("calculate_similarity")
       /\ pc \notin {"align", "score"}
       /\ pc = "done" =>
            result = [kind |-> "Err", error |-> "DifferentSampleRates",
                      reference |-> ref_path.audio.sample_rate,
                      degraded |-> deg_path.audio.sample_rate]

C1_Witness ==
    /\ entry = "run" /\ pc = "done" /\ BothLoad
    /\ ref_path.audio.sample_rate = 16000 /\ deg_path.audio.sample_rate = 8000
    /\ result.kind = "Err" /\ result.error = "DifferentSampleRates"

(* C2: when the aligner returns None, compute_results returns              *)
(* FailedToAlignSignals, calculate_similarity is not invoked and the       *)
(* aligner has been invoked exactly once.                                  *)
C2_AlignmentFailureIsFatal ==
    (Has("globally_align") /\ globally_align(ref_signal, deg_signal).kind = "None")
    => /\ pc = "done"
       /\ result = AlignmentFailed
       /\ ~Has("calculate_similarity")
       /\ Count("globally_align") = 1
       /\ scored = NoArgs

C2_Witness ==
    /\ entry = "compute_results" /\ pc = "done"
    /\ ref_signal.content = "speech" /\ deg_signal.content = "silent"
    /\ result = AlignmentFailed

(* C3: constructing the Fullband variant with a model path that cannot be  *)
(* loaded is reported to the caller as a model-load error, and no call is  *)
(* ever made on such a manager.                                            *)
C3_ModelLoadErrorReported ==
    (variant.kind = "Fullband" /\ variant.model_path \notin LoadableModels)
    => /\ self.kind = "ModelLoadError"
       /\ calls = 0
       /\ pc = "idle"

(* C4: with equal sample rates a run goes on to compute_results whatever   *)
(* the durations are; a warning is logged exactly when the durations       *)
(* differ by more than DURATION_MISMATCH_TOLERANCE, and the warning        *)
(* changes neither the signals nor what run returns.                       *)
C4_DurationMismatchOnlyWarns ==
    (entry = "run" /\ BothLoad
        /\ ref_path.audio.sample_rate = deg_path.audio.sample_rate
        /\ Has("validate"))
    => /\ pc \in {"align", "score", "done"}
       /\ pc = "done" => Has("globally_align")
       /\ Count("warn") <= 1
       /\ Has("warn") <=>
            Abs(ref_path.audio.len - deg_path.audio.len) * 1000
                > DURATION_MISMATCH_TOLERANCE * ref_path.audio.sample_rate
       /\ ref_signal = ref_path.audio
       /\ deg_signal = deg_path.audio
       /\ pc = "done" => result = ComputeOutcome(ref_path.audio, deg_path.audio, self)

C4_Witness ==
    /\ entry = "run" /\ pc = "done" /\ BothLoad
    /\ Has("warn")
    /\ ref_path.audio.len = 16000 /\ deg_path.audio.len = 48000
    /\ result.kind = "Ok"

(* C5: the SimilarityResult of a successful call carries the lag the       *)
(* aligner applied in that call.                                           *)
C5_ResultCarriesAppliedLag ==
    (pc = "done" /\ result.kind = "Ok")
    => result.value.alignment_lag = [present |-> TRUE, value |-> lag]

(* C6: the manager's configuration never changes after construction, the   *)
(* value a call returns is determined by that call's inputs and the        *)
(* construction-time configuration alone, and a new call can always be     *)
(* started once the previous one has returned, whether it failed or not.   *)
C6_ConfigAsConstructed ==
    self.kind = "Manager" =>
        /\ self.search_window = window_size
        /\ self.patch_selector.measure = "NeurogramSimiliarityIndexMeasure"
        /\ self.patch_creator.kind =
             (IF variant.kind = "Wideband" THEN "VadPatchCreator"
                                           ELSE "ImagePatchCreator")
        /\ self.sim_to_quality_mapper.kind =
             (IF variant.kind = "Wideband" THEN "SpeechSimilarityToQualityMapper"
                                           ELSE "SvrSimilarityToQualityMapper")

C6_OutcomeFromInputsOnly ==
    pc = "done" =>
        result = (IF entry = "run"
                  THEN RunOutcome(ref_path, deg_path, new(variant, window_size))
                  ELSE ComputeOutcome(ref_signal, deg_signal,
                                      new(variant, window_size)))

C6_NextCallPossible ==
    (self.kind = "Manager" /\ pc = "idle" /\ calls < MaxCalls)
    => (ENABLED Run /\ ENABLED ComputeResults)

C6_ManagerReusableAndImmutable ==
    /\ [][self' = self]_vars
    /\ [](C6_ConfigAsConstructed /\ C6_OutcomeFromInputsOnly /\ C6_NextCallPossible)

C6_Witness ==
    /\ failedBefore /\ calls = 2 /\ pc = "done"
    /\ result.kind = "Ok"
    /\ self.search_window = 1

(* C7: new yields one of two configurations: Wideband gives the            *)
(* Voice-Activity patch creator with PATCH_SIZE_AUDIO and the Speech       *)
(* mapper, Fullband gives the image patch creator with PATCH_SIZE_SPEECH   *)
(* and the regression mapper loaded from model_path; the selector uses     *)
(* NSIM and the search window is window_size.                              *)
C7_TwoConfigurations ==
    self.kind = "Manager" =>
        /\ \/ /\ variant.kind = "Wideband"
              /\ self.patch_creator =
                    [kind |-> "VadPatchCreator", patch_size |-> "PATCH_SIZE_AUDIO"]
              /\ self.sim_to_quality_mapper.kind = "SpeechSimilarityToQualityMapper"
           \/ /\ variant.kind = "Fullband"
              /\ self.patch_creator =
                    [kind |-> "ImagePatchCreator", patch_size |-> "PATCH_SIZE_SPEECH"]
              /\ self.sim_to_quality_mapper.kind = "SvrSimilarityToQualityMapper"
              /\ self.sim_to_quality_mapper.model = variant.model_path
        /\ self.patch_selector =
              [kind |-> "ComparisonPatchesSelector",
               measure |-> "NeurogramSimiliarityIndexMeasure"]
        /\ self.search_window = window_size

C7_Witness ==
    /\ self.kind = "Manager" /\ variant.kind = "Fullband" /\ window_size = 1
    /\ pc = "done" /\ result.kind = "Ok"
    /\ scored.patch_creator.kind = "ImagePatchCreator"

(* C8: a run executes load reference, load degraded, validate, align,      *)
(* score in this order, each at most once and only after the earlier ones  *)
(* succeeded; it stops at the first failing stage with that stage's error  *)
(* and returns a score only after all five, the scoring stage's result.    *)
C8_StagesInOrder ==
    entry = "run" =>
        /\ IsPrefix(Stages, RunStages)
        /\ pc = "load_ref" => Stages = <<>>
        /\ pc = "load_deg" => Len(Stages) = 1 /\ ref_path.exists
        /\ pc = "validate" => Len(Stages) = 2 /\ BothLoad
        /\ pc = "align" =>
              /\ Len(Stages) = 3 /\ BothLoad
              /\ ref_signal.sample_rate = deg_signal.sample_rate
        /\ pc = "score" =>
              /\ Len(Stages) = 4
              /\ globally_align(ref_signal, deg_signal).kind = "Some"
        /\ pc = "done" =>
              /\ Len(Stages) >= 1
              /\ Len(Stages) = 1 <=> ~ref_path.exists
              /\ Len(Stages) = 1 =>
                    result = [kind |-> "Err", error |-> "LoadError", path |-> ref_path]
              /\ Len(Stages) = 2 =>
                    /\ ~deg_path.exists
                    /\ result = [kind |-> "Err", error |-> "LoadError",
                                 path |-> deg_path]
              /\ Len(Stages) = 3 =>
                    /\ ref_signal.sample_rate # deg_signal.sample_rate
                    /\ result.kind = "Err"
                    /\ result.error = "DifferentSampleRates"
              /\ Len(Stages) = 4 =>
                    /\ globally_align(ref_signal, deg_signal).kind = "None"
                    /\ result = AlignmentFailed
              /\ Len(Stages) = 5 =>
                    result = calculate_similarity(
                                 scored.reference, scored.degraded,
                                 scored.patch_creator, scored.patch_selector,
                                 scored.sim_to_quality_mapper, scored.search_window)
              /\ result.kind = "Ok" => Stages = RunStages

C8_Witness ==
    /\ entry = "run" /\ pc = "done"
    /\ Stages = RunStages
    /\ result.kind = "Ok"

(* C9: for Wideband, use_unscaled_mos_mapping = FALSE builds the Speech    *)
(* mapper with rescaling enabled and TRUE builds it with rescaling         *)
(* disabled; the flag changes nothing else in the manager.                 *)
C9_FlagPolarity ==
    (self.kind = "Manager" /\ variant.kind = "Wideband")
    => /\ self.sim_to_quality_mapper.kind = "SpeechSimilarityToQualityMapper"
       /\ variant.use_unscaled_mos_mapping = FALSE
            => self.sim_to_quality_mapper.scale_to_max_mos = TRUE
       /\ variant.use_unscaled_mos_mapping = TRUE
            => self.sim_to_quality_mapper.scale_to_max_mos = FALSE
       /\ LET other == new([variant EXCEPT !.use_unscaled_mos_mapping = ~@],
                           window_size)
          IN  /\ other.kind = "Manager"
              /\ other.search_window = self.search_window
              /\ other.patch_creator = self.patch_creator
              /\ other.patch_selector = self.patch_selector
              /\ other.sim_to_quality_mapper.kind = self.sim_to_quality_mapper.kind
              /\ other.sim_to_quality_mapper.model = self.sim_to_quality_mapper.model

C9_Witness ==
    /\ variant.kind = "Wideband" /\ variant.use_unscaled_mos_mapping
    /\ pc = "done" /\ result.kind = "Ok"
    /\ scored.sim_to_quality_mapper.kind = "SpeechSimilarityToQualityMapper"
    /\ ~scored.sim_to_quality_mapper.scale_to_max_mos

(* C10: a direct compute_results call checks no sample rates, never        *)
(* returns DifferentSampleRates and starts with the alignment; whenever    *)
(* the alignment succeeds, calculate_similarity gets the caller's          *)
(* reference signal and the aligner's degraded signal.                     *)
C10_ComputeResultsSkipsValidation ==
    /\ entry = "compute_results" =>
          /\ ~Has("validate")
          /\ ~Has("load_ref") /\ ~Has("load_deg")
          /\ trace # <<>> => trace[1] = "globally_align"
          /\ (pc = "done" /\ result.kind = "Err")
                => result.error # "DifferentSampleRates"
          /\ (pc = "done" /\ ref_signal.sample_rate # deg_signal.sample_rate)
                => result = ComputeOutcome(ref_signal, deg_signal, self)
    /\ Has("calculate_similarity") =>
          /\ scored.reference = ref_signal
          /\ scored.degraded = globally_align(ref_signal, deg_signal).signal

C10_Witness ==
    /\ entry = "compute_results" /\ pc = "done"
    /\ ref_signal.sample_rate = 16000 /\ deg_signal.sample_rate = 8000
    /\ result.kind = "Ok"
    /\ lag # 0
    /\ scored.degraded # deg_signal

====
